---- MODULE Spec2Model ----
(***************************************************************************)
(* CombinedTransport (src/transport/combined.rs): a facade over a TCP and, *)
(* with the feature transport_utp, a uTP transport.  The model holds two   *)
(* facades A and B and one foreign peer C.  The transports themselves      *)
(* (super::tcp, super::utp) are collaborators: each is a bound address, a  *)
(* set of connect attempts in flight and a queue of items it will hand out *)
(* from poll_next.                                                         *)
(***************************************************************************)
EXTENDS Integers, Sequences, FiniteSets, TLC

VARIABLES
    utpEnabled,  \* cfg(feature = "transport_utp") of the build
    phase,       \* per facade: "new" (bind not called), "bound", "failed"
    local_addr,  \* CombinedTransport.local_addr
    connected,   \* CombinedTransport.connected
    tcp,         \* CombinedTransport.tcp (the collaborator's state)
    utp,         \* CombinedTransport.utp (the collaborator's state)
    busy,        \* <<protocol, port>> pairs the host has in use
    calls,       \* history: the peers each facade's connect was called with
    events,      \* history: the items each facade's poll_next returned
    dropped,     \* history: the connections each facade's arbiter discarded
    lastOp,      \* history: the last operation on a CombinedStream
    streamLog,   \* per underlying stream: the operations it received
    closed,      \* the underlying streams whose close has completed
    woken,       \* per facade: the task polling it is scheduled to run
    armed        \* per facade: the protocols whose transport holds its waker

vars == <<utpEnabled, phase, local_addr, connected, tcp, utp, busy, calls,
          events, dropped, lastOp, streamLog, closed, woken, armed>>

facadeVars == <<utpEnabled, phase, local_addr, connected, tcp, utp, busy,
                calls, events, dropped>>

streamVars == <<lastOp, streamLog, closed>>

\* The scheduler's state.  Only the steps of a scheduled facade (SpecSched)
\* change it; elsewhere a facade is polled at any time.
schedVars == <<woken, armed>>

-----------------------------------------------------------------------------
(* Bounds *)

\* connect calls, inbound connections of peers outside the model and failed
\* attempts of one facade
MaxConns == 3
\* ports of the host, 1..MaxPort; port 0 asks for an ephemeral port
MaxPort == 2
\* operations issued on unified streams
MaxOps == 2

-----------------------------------------------------------------------------
(* Addresses *)

Facades == {"A", "B"}

SockAddr(h, p) == [host |-> h, port |-> p]

\* The addresses the facades of the connection scenarios are bound to, and
\* the address of a peer outside the model.
AddrOf(f) == IF f = "A" THEN SockAddr("lo", 1) ELSE SockAddr("lo", 2)

ForeignAddr == SockAddr("far", 1)

PeerAddrs == {AddrOf(f) : f \in Facades} \cup {ForeignAddr}

NoAddr == SockAddr("none", 0)

\* Every address a transport of the model may be asked to connect to.
Addrs == PeerAddrs \cup {SockAddr(h, p) : h \in {"lo", "any"}, p \in 1..MaxPort}

Protocols == IF utpEnabled THEN <<"tcp", "utp">> ELSE <<"tcp">>

ProtocolSet == {Protocols[i] : i \in 1..Len(Protocols)}

-----------------------------------------------------------------------------
(* Underlying transports *)

\* A transport that is not part of the facade (not built, or not bound).
NoTransport ==
    [addr |-> NoAddr, pending |-> [a \in Addrs |-> 0], queue |-> <<>>,
     made |-> 0, connects |-> <<>>]

\* TcpTransport::bind / UtpTransport::bind on a concrete address.
BoundTransport(addr) == [NoTransport EXCEPT !.addr = addr]

\* Transport::connect on an underlying transport: the attempt is in flight.
TransportConnect(t, peer_addr) ==
    [t EXCEPT !.pending[peer_addr] = @ + 1,
              !.connects = Append(@, peer_addr)]

\* The stream handle of the n-th connection a transport of facade f made.
StreamHandle(f, proto, n) == [owner |-> f, kind |-> proto, id |-> n]

\* Connection::new(stream, peer_addr, is_initiator, protocol)
ConnectionNew(stream, peer_addr, is_initiator, protocol) ==
    [stream |-> stream, peer_addr |-> peer_addr,
     is_initiator |-> is_initiator, protocol |-> protocol]

\* Ok(conn) of io::Result<Connection<T>>
OkItem(conn) == [ok |-> TRUE, conn |-> conn, err |-> 0]

NoStream == StreamHandle("", "", 0)

\* Err(err) of io::Result<Connection<T>>: the n-th item of the transport.
ErrItem(proto, n) ==
    [ok |-> FALSE, conn |-> ConnectionNew(NoStream, NoAddr, FALSE, proto),
     err |-> n]

\* The transport completes a connection: the record is queued.
TransportEstablish(t, f, proto, peer_addr, is_initiator) ==
    [t EXCEPT !.made = @ + 1,
              !.queue = Append(@, OkItem(ConnectionNew(
                            StreamHandle(f, proto, t.made + 1),
                            peer_addr, is_initiator, proto)))]

\* The transport reports a failed attempt: an Err is queued.
TransportFail(t, proto) ==
    [t EXCEPT !.made = @ + 1,
              !.queue = Append(@, ErrItem(proto, t.made + 1))]

PollPending == [tag |-> "Pending", item |-> ErrItem("", 0)]

PollReadyNone == [tag |-> "ReadyNone", item |-> ErrItem("", 0)]

PollReadySome(item) == [tag |-> "ReadySome", item |-> item]

NotPolled == [tag |-> "NotPolled", item |-> ErrItem("", 0)]

\* What an underlying transport with nothing queued answers a poll with:
\* it is waiting, or it has come to the end of its sequence.
IdleAnswers == {"Pending", "ReadyNone"}

\* Stream::poll_next of an underlying transport: the value it returns, idle
\* being its answer when nothing is queued.
TransportPollNext(t, idle) ==
    IF t.queue # <<>> THEN PollReadySome(Head(t.queue))
    ELSE IF idle = "ReadyNone" THEN PollReadyNone
    ELSE PollPending

\* Stream::poll_next of an underlying transport: the transport afterwards.
TransportAfterPoll(t) ==
    IF t.queue # <<>> THEN [t EXCEPT !.queue = Tail(@)] ELSE t

-----------------------------------------------------------------------------
(* CombinedStream *)

CombinedStreamTcp(stream) == [variant |-> "Tcp", stream |-> stream]

CombinedStreamUtp(stream) == [variant |-> "Utp", stream |-> stream]

\* CombinedStream::protocol
protocol(s) == IF s.variant = "Tcp" THEN "tcp" ELSE "utp"

\* A call on an underlying stream and the value the caller gets back, answer
\* being what the underlying stream returns for the call.
Forward(stream, op, arg, answer) ==
    [call |-> [stream |-> stream, op |-> op, arg |-> arg], ret |-> answer]

\* AsyncRead::poll_read for CombinedStream
poll_read(s, buf, answer) ==
    CASE s.variant = "Tcp" -> Forward(s.stream, "poll_read", buf, answer)
      [] s.variant = "Utp" -> Forward(s.stream, "poll_read", buf, answer)

\* AsyncWrite::poll_write for CombinedStream
poll_write(s, buf, answer) ==
    CASE s.variant = "Tcp" -> Forward(s.stream, "poll_write", buf, answer)
      [] s.variant = "Utp" -> Forward(s.stream, "poll_write", buf, answer)

\* AsyncWrite::poll_flush for CombinedStream
poll_flush(s, answer) ==
    CASE s.variant = "Tcp" -> Forward(s.stream, "poll_flush", 0, answer)
      [] s.variant = "Utp" -> Forward(s.stream, "poll_flush", 0, answer)

\* A variant of poll_close whose Utp arm flushes.
poll_close_flushes(s, answer) ==
    CASE s.variant = "Tcp" -> Forward(s.stream, "poll_close", 0, answer)
      [] s.variant = "Utp" -> Forward(s.stream, "poll_flush", 0, answer)

\* AsyncWrite::poll_close for CombinedStream
poll_close(s, answer) ==
    CASE s.variant = "Tcp" -> Forward(s.stream, "poll_close", 0, answer)
      [] s.variant = "Utp" -> Forward(s.stream, "poll_close", 0, answer)

-----------------------------------------------------------------------------
(* The arbiter *)

None == [some |-> FALSE, item |-> ErrItem("", 0)]

Some(item) == [some |-> TRUE, item |-> item]

\* A variant of MapStream that wraps every stream as the Tcp variant.
MapStream_always_tcp(map, stream) == CombinedStreamTcp(stream)

\* The map argument of on_connection: CombinedStream::Tcp or ::Utp.
MapStream(map, stream) ==
    IF map = "Tcp" THEN CombinedStreamTcp(stream) ELSE CombinedStreamUtp(stream)

\* A variant of take_connection with the lookup inverted.
take_connection_inverted(conn, conn_set) ==
    IF ~conn.is_initiator THEN TRUE
    ELSE IF conn.peer_addr \in conn_set THEN TRUE
    ELSE FALSE

\* A variant of take_connection that looks inbound connections up as well.
take_connection_any_direction(conn, conn_set) ==
    IF conn.peer_addr \notin conn_set THEN TRUE ELSE FALSE

\* A variant of take_connection that takes every connection (lines 73-76).
take_connection_all(conn, conn_set) == TRUE

\* on_connection, lines 87-96: whether the connection is taken.
take_connection(conn, conn_set) ==
    IF ~conn.is_initiator THEN TRUE
    ELSE IF conn.peer_addr \notin conn_set THEN TRUE
    ELSE FALSE

\* A variant of connected_after that never inserts.
connected_after_no_insert(conn, conn_set) == conn_set

\* A variant of connected_after that inserts the peer of inbound connections
\* as well.
connected_after_any_direction(conn, conn_set) ==
    IF conn.peer_addr \notin conn_set THEN conn_set \cup {conn.peer_addr}
    ELSE conn_set

\* A variant of connected_after that evicts the peer when it drops a
\* connection to it.
connected_after_evicts(conn, conn_set) ==
    IF ~conn.is_initiator THEN conn_set
    ELSE IF conn.peer_addr \notin conn_set THEN conn_set \cup {conn.peer_addr}
    ELSE conn_set \ {conn.peer_addr}

\* on_connection, lines 87-96: self.connected afterwards.
connected_after(conn, conn_set) ==
    IF ~conn.is_initiator THEN conn_set
    ELSE IF conn.peer_addr \notin conn_set THEN conn_set \cup {conn.peer_addr}
    ELSE conn_set

\* A variant of on_connection that takes every connection (lines 73-76).
on_connection_accept_all(conn, map, conn_set) ==
    Some(OkItem(ConnectionNew(MapStream(map, conn.stream), conn.peer_addr,
                              conn.is_initiator, conn.protocol)))

\* A variant of on_connection that reports a duplicate as a failure.
on_connection_err_on_duplicate(conn, map, conn_set) ==
    IF take_connection(conn, conn_set)
    THEN Some(OkItem(ConnectionNew(MapStream(map, conn.stream), conn.peer_addr,
                                   conn.is_initiator, conn.protocol)))
    ELSE Some(ErrItem(conn.protocol, 0))

\* on_connection: the value returned.
on_connection(conn, map, conn_set) ==
    IF take_connection(conn, conn_set)
    THEN Some(OkItem(ConnectionNew(MapStream(map, conn.stream), conn.peer_addr,
                                   conn.is_initiator, conn.protocol)))
    ELSE None

\* A variant of on_poll_connection that keeps a transport's failure to
\* itself.
on_poll_connection_swallow_err(poll, map, conn_set) ==
    CASE poll.tag = "Pending" -> None
      [] poll.tag = "ReadyNone" -> None
      [] poll.tag = "ReadySome" /\ ~poll.item.ok -> None
      [] poll.tag = "ReadySome" /\ poll.item.ok ->
            on_connection(poll.item.conn, map, conn_set)

\* on_poll_connection: the value returned.
on_poll_connection(poll, map, conn_set) ==
    CASE poll.tag = "Pending" -> None
      [] poll.tag = "ReadyNone" -> None
      [] poll.tag = "ReadySome" /\ ~poll.item.ok -> Some(poll.item)
      [] poll.tag = "ReadySome" /\ poll.item.ok ->
            on_connection(poll.item.conn, map, conn_set)

\* on_poll_connection: self.connected afterwards.
connected_after_poll(poll, conn_set) ==
    IF poll.tag = "ReadySome" /\ poll.item.ok
    THEN connected_after(poll.item.conn, conn_set)
    ELSE conn_set

\* on_poll_connection: the connection it discarded, if any.
discarded(poll, conn_set) ==
    IF poll.tag = "ReadySome" /\ poll.item.ok
       /\ ~take_connection(poll.item.conn, conn_set)
    THEN <<poll.item.conn>>
    ELSE <<>>


\* A variant of exhausted that ends the merged sequence once every transport
\* polled has ended.
exhausted_ends(tcp_next, utp_next) ==
    IF tcp_next.tag = "ReadyNone" /\ utp_next.tag \in {"ReadyNone", "NotPolled"}
    THEN PollReadyNone
    ELSE PollPending

\* poll_next, line 140: the value returned when no protocol gave an item.
exhausted(tcp_next, utp_next) == PollPending

\* A variant of poll_next that polls the second protocol first.
poll_next_utp_first(f, tcp_idle, utp_idle) ==
    LET utp_next == IF utpEnabled THEN TransportPollNext(utp[f], utp_idle)
                    ELSE NotPolled
        utp_after == IF utpEnabled THEN TransportAfterPoll(utp[f]) ELSE utp[f]
        res2 == IF utpEnabled
                THEN on_poll_connection(utp_next, "Utp", connected[f])
                ELSE None
        set2 == connected_after_poll(utp_next, connected[f])
        drop2 == discarded(utp_next, connected[f])
        tcp_next == TransportPollNext(tcp[f], tcp_idle)
        tcp_after == TransportAfterPoll(tcp[f])
        res1 == on_poll_connection(tcp_next, "Tcp", set2)
        set1 == connected_after_poll(tcp_next, set2)
        drop1 == discarded(tcp_next, set2)
    IN  IF res2.some
        THEN [ret |-> PollReadySome(res2.item), tcp_next |-> NotPolled,
              utp_next |-> utp_next, connected |-> set2, tcp |-> tcp[f],
              utp |-> utp_after, dropped |-> drop2]
        ELSE IF res1.some
        THEN [ret |-> PollReadySome(res1.item), tcp_next |-> tcp_next,
              utp_next |-> utp_next, connected |-> set1, tcp |-> tcp_after,
              utp |-> utp_after, dropped |-> drop2 \o drop1]
        ELSE [ret |-> exhausted(tcp_next, utp_next), tcp_next |-> tcp_next,
              utp_next |-> utp_next, connected |-> set1, tcp |-> tcp_after,
              utp |-> utp_after, dropped |-> drop2 \o drop1]

\* A variant of poll_next that polls every protocol before it looks at what
\* the first one gave.
poll_next_polls_both(f, tcp_idle, utp_idle) ==
    LET tcp_next == TransportPollNext(tcp[f], tcp_idle)
        tcp_after == TransportAfterPoll(tcp[f])
        res1 == on_poll_connection(tcp_next, "Tcp", connected[f])
        set1 == connected_after_poll(tcp_next, connected[f])
        drop1 == discarded(tcp_next, connected[f])
        utp_next == IF utpEnabled THEN TransportPollNext(utp[f], utp_idle)
                    ELSE NotPolled
        utp_after == IF utpEnabled THEN TransportAfterPoll(utp[f]) ELSE utp[f]
        res2 == on_poll_connection(utp_next, "Utp", set1)
        set2 == connected_after_poll(utp_next, set1)
        drop2 == discarded(utp_next, set1)
    IN  IF res1.some
        THEN [ret |-> PollReadySome(res1.item), tcp_next |-> tcp_next,
              utp_next |-> utp_next, connected |-> set1, tcp |-> tcp_after,
              utp |-> utp_after, dropped |-> drop1]
        ELSE IF utpEnabled /\ res2.some
        THEN [ret |-> PollReadySome(res2.item), tcp_next |-> tcp_next,
              utp_next |-> utp_next, connected |-> set2,
              tcp |-> tcp_after, utp |-> utp_after, dropped |-> drop1 \o drop2]
        ELSE [ret |-> exhausted(tcp_next, utp_next),
              tcp_next |-> tcp_next, utp_next |-> utp_next,
              connected |-> IF utpEnabled THEN set2 ELSE set1,
              tcp |-> tcp_after, utp |-> utp_after,
              dropped |-> IF utpEnabled THEN drop1 \o drop2 ELSE drop1]

\* Stream::poll_next of the facade: the value returned (ret), what each
\* underlying poll returned, and the facade's fields afterwards.
poll_next(f, tcp_idle, utp_idle) ==
    LET tcp_next == TransportPollNext(tcp[f], tcp_idle)
        tcp_after == TransportAfterPoll(tcp[f])
        res1 == on_poll_connection(tcp_next, "Tcp", connected[f])
        set1 == connected_after_poll(tcp_next, connected[f])
        drop1 == discarded(tcp_next, connected[f])
        utp_next == TransportPollNext(utp[f], utp_idle)
        utp_after == TransportAfterPoll(utp[f])
        res2 == on_poll_connection(utp_next, "Utp", set1)
        set2 == connected_after_poll(utp_next, set1)
        drop2 == discarded(utp_next, set1)
    IN  IF res1.some
        THEN [ret |-> PollReadySome(res1.item), tcp_next |-> tcp_next,
              utp_next |-> NotPolled, connected |-> set1, tcp |-> tcp_after,
              utp |-> utp[f], dropped |-> drop1]
        ELSE IF utpEnabled
        THEN IF res2.some
             THEN [ret |-> PollReadySome(res2.item), tcp_next |-> tcp_next,
                   utp_next |-> utp_next, connected |-> set2,
                   tcp |-> tcp_after, utp |-> utp_after,
                   dropped |-> drop1 \o drop2]
             ELSE [ret |-> exhausted(tcp_next, utp_next),
                   tcp_next |-> tcp_next, utp_next |-> utp_next,
                   connected |-> set2, tcp |-> tcp_after, utp |-> utp_after,
                   dropped |-> drop1 \o drop2]
        ELSE [ret |-> exhausted(tcp_next, NotPolled), tcp_next |-> tcp_next,
              utp_next |-> NotPolled, connected |-> set1, tcp |-> tcp_after,
              utp |-> utp[f], dropped |-> drop1]

\* A variant of connect that leaves the second protocol out.
connect_tcp_only(f, peer_addr) ==
    [tcp |-> TransportConnect(tcp[f], peer_addr), utp |-> utp[f]]

\* Transport::connect of the facade: the underlying transports afterwards.
connect(f, peer_addr) ==
    [tcp |-> TransportConnect(tcp[f], peer_addr),
     utp |-> IF utpEnabled THEN TransportConnect(utp[f], peer_addr)
             ELSE utp[f]]

-----------------------------------------------------------------------------
(* Actions *)

Transport(f, proto) == IF proto = "tcp" THEN tcp[f] ELSE utp[f]

\* The transports of one protocol replaced by upd (a function on a subset
\* of the facades); the other protocol's are left alone.
SetTransports(proto, upd) ==
    IF proto = "tcp"
    THEN /\ tcp' = [x \in Facades |->
                      IF x \in DOMAIN upd THEN upd[x] ELSE tcp[x]]
         /\ UNCHANGED utp
    ELSE /\ utp' = [x \in Facades |->
                      IF x \in DOMAIN upd THEN upd[x] ELSE utp[x]]
         /\ UNCHANGED tcp

Inbound(items) ==
    {i \in 1..Len(items) : items[i].ok /\ ~items[i].conn.is_initiator}

Failures(items) == {i \in 1..Len(items) : ~items[i].ok}

\* What facade f has used of MaxConns: its connect calls, and the inbound
\* connections and the failures its transports have reported.
Used(f) ==
    Len(calls[f])
      + Cardinality(Inbound(tcp[f].queue)) + Cardinality(Inbound(utp[f].queue))
      + Cardinality(Inbound(events[f]))
      + Cardinality(Failures(tcp[f].queue))
      + Cardinality(Failures(utp[f].queue))
      + Cardinality(Failures(events[f]))

\* The caller calls connect(peer_addr) on facade f.
DoConnect(f, peer_addr) ==
    /\ phase[f] = "bound"
    /\ peer_addr # local_addr[f]
    /\ tcp' = [tcp EXCEPT ![f] = connect(f, peer_addr).tcp]
    /\ utp' = [utp EXCEPT ![f] = connect(f, peer_addr).utp]
    /\ calls' = [calls EXCEPT ![f] = Append(@, peer_addr)]
    /\ UNCHANGED <<utpEnabled, phase, local_addr, connected, busy, events,
                   dropped, streamVars,
                   schedVars>>

Connect(f, peer_addr) == Used(f) < MaxConns /\ DoConnect(f, peer_addr)

\* The facades listening on addr with protocol proto.
Listener(addr, proto) ==
    {g \in Facades : phase[g] = "bound" /\ Transport(g, proto).addr = addr}

\* An attempt of f's transport proto to reach peer_addr completes: f's
\* transport queues the outbound connection and the transport listening on
\* peer_addr, if it is in the model, queues the inbound one.
Complete(f, proto, peer_addr) ==
    /\ phase[f] = "bound"
    /\ proto \in ProtocolSet
    /\ Transport(f, proto).pending[peer_addr] > 0
    /\ LET out == TransportEstablish(
                      [Transport(f, proto) EXCEPT !.pending[peer_addr] = @ - 1],
                      f, proto, peer_addr, TRUE)
           inb == [g \in Listener(peer_addr, proto) |->
                      TransportEstablish(Transport(g, proto), g, proto,
                                         Transport(f, proto).addr, FALSE)]
       IN  SetTransports(proto, [x \in {f} \cup DOMAIN inb |->
                                    IF x = f THEN out ELSE inb[x]])
    /\ UNCHANGED <<utpEnabled, phase, local_addr, connected, busy, calls,
                   events, dropped, streamVars,
                   schedVars>>

\* A peer outside the model connects to f over proto: f's transport queues
\* the inbound connection.
Accept(f, proto, peer_addr) ==
    /\ phase[f] = "bound"
    /\ proto \in ProtocolSet
    /\ peer_addr # local_addr[f]
    /\ Listener(peer_addr, proto) = {}
    /\ Used(f) < MaxConns
    /\ SetTransports(proto, [x \in {f} |->
          TransportEstablish(Transport(f, proto), f, proto, peer_addr, FALSE)])
    /\ UNCHANGED <<utpEnabled, phase, local_addr, connected, busy, calls,
                   events, dropped, streamVars,
                   schedVars>>

\* An attempt of f's transport proto to reach peer_addr fails.
Fail(f, proto, peer_addr) ==
    /\ phase[f] = "bound"
    /\ proto \in ProtocolSet
    /\ Transport(f, proto).pending[peer_addr] > 0
    /\ Used(f) < MaxConns
    /\ SetTransports(proto, [x \in {f} |->
          TransportFail([Transport(f, proto) EXCEPT !.pending[peer_addr] = @ - 1],
                        proto)])
    /\ UNCHANGED <<utpEnabled, phase, local_addr, connected, busy, calls,
                   events, dropped, streamVars,
                   schedVars>>

\* A call of poll_next on facade f has run with outcome r: the facade's
\* fields are as the call left them and the item it returned, if any, is
\* with the caller.
Polled(f, r) ==
    /\ connected' = [connected EXCEPT ![f] = r.connected]
    /\ tcp' = [tcp EXCEPT ![f] = r.tcp]
    /\ utp' = [utp EXCEPT ![f] = r.utp]
    /\ events' = [events EXCEPT ![f] =
                     IF r.ret.tag = "ReadySome"
                     THEN Append(@, r.ret.item) ELSE @]
    /\ dropped' = [dropped EXCEPT ![f] = @ \o r.dropped]
    /\ UNCHANGED <<utpEnabled, phase, local_addr, busy, calls, streamVars>>

\* The scheduler polls facade f once; a transport with nothing queued
\* answers tcp_idle, utp_idle.
Poll(f, tcp_idle, utp_idle) ==
    /\ phase[f] = "bound"
    /\ Polled(f, poll_next(f, tcp_idle, utp_idle))
    /\ UNCHANGED schedVars

\* The answer of an underlying stream: Pending, Ready(Err) or Ready(Ok(n)).
Answer(tag, n) == [tag |-> tag, n |-> n]

NoOp == [self |-> CombinedStreamTcp(NoStream), op |-> "", arg |-> 0,
         call |-> [stream |-> NoStream, op |-> "", arg |-> 0],
         result |-> Answer("", 0), ret |-> Answer("", 0)]

\* The underlying streams of the unified streams the caller works on: none
\* has received a call.
NoLogs ==
    [h \in {StreamHandle("A", "tcp", 1), StreamHandle("A", "utp", 1)} |-> <<>>]

\* CombinedTransport::bind, lines 34-40: the facade constructed once the
\* first protocol is bound to addr and the others to utp_addr.
Constructed(addr, utp_addr) ==
    [local_addr |-> addr, connected |-> {}, tcp |-> BoundTransport(addr),
     utp |-> IF utpEnabled THEN BoundTransport(utp_addr) ELSE NoTransport]

\* A facade before bind has returned it.
Unconstructed ==
    [local_addr |-> NoAddr, connected |-> {}, tcp |-> NoTransport,
     utp |-> NoTransport]

\* The state in which the facades of bound are bound to their addresses and
\* nothing has happened yet.
InitWith(bound) ==
    LET made == [f \in Facades |->
                    IF f \in bound THEN Constructed(AddrOf(f), AddrOf(f))
                    ELSE Unconstructed]
    IN  /\ utpEnabled \in BOOLEAN
        /\ phase = [f \in Facades |-> IF f \in bound THEN "bound" ELSE "new"]
        /\ local_addr = [f \in Facades |-> made[f].local_addr]
        /\ connected = [f \in Facades |-> made[f].connected]
        /\ tcp = [f \in Facades |-> made[f].tcp]
        /\ utp = [f \in Facades |-> made[f].utp]
        /\ busy = {<<p, AddrOf(f).port>> : p \in ProtocolSet, f \in bound}
        /\ calls = [f \in Facades |-> <<>>]
        /\ events = [f \in Facades |-> <<>>]
        /\ dropped = [f \in Facades |-> <<>>]
        /\ lastOp = NoOp
        /\ streamLog = NoLogs
        /\ closed = {}
        /\ woken = [f \in Facades |-> f \in bound]
        /\ armed = [f \in Facades |-> {}]

\* One facade, A, and its peers: B's address and the foreign address are
\* peers outside the model.
Init == InitWith({"A"})

Next ==
    \/ \E f \in Facades, a \in PeerAddrs : Connect(f, a)
    \/ \E f \in Facades, p \in {"tcp", "utp"}, a \in PeerAddrs : Complete(f, p, a)
    \/ \E f \in Facades, p \in {"tcp", "utp"}, a \in PeerAddrs : Accept(f, p, a)
    \/ \E f \in Facades, p \in {"tcp", "utp"}, a \in PeerAddrs : Fail(f, p, a)
    \/ \E f \in Facades, i1 \in IdleAnswers, i2 \in IdleAnswers : Poll(f, i1, i2)

Spec == Init /\ [][Next]_vars

-----------------------------------------------------------------------------
(* Two facades connected to each other: the scenario of tests::test_combined. *)
(* Each side calls connect on the other's address at most once and every     *)
(* attempt completes.                                                        *)

Other(f) == IF f = "A" THEN "B" ELSE "A"

ConnectOnce(f) == calls[f] = <<>> /\ DoConnect(f, local_addr[Other(f)])

InitPair == InitWith({"A", "B"})

NextPair ==
    \/ \E f \in Facades : ConnectOnce(f)
    \/ \E f \in Facades, p \in {"tcp", "utp"} : Complete(f, p, local_addr[Other(f)])
    \/ \E f \in Facades, i1 \in IdleAnswers, i2 \in IdleAnswers : Poll(f, i1, i2)

SpecPair == InitPair /\ [][NextPair]_vars

-----------------------------------------------------------------------------
(* bind *)

Ports == 1..MaxPort

Hosts == {"lo", "any"}

\* The local addresses a caller may ask for: port 0 is an ephemeral port,
\* host "any" the wildcard address.
Requests == {SockAddr(h, p) : h \in Hosts, p \in 0..MaxPort}

\* TcpTransport::bind / UtpTransport::bind: the addresses the transport may
\* end up bound to; none when the bind fails.
TransportBind(proto, req, inUse) ==
    IF req.port = 0
    THEN {SockAddr(req.host, p) : p \in {q \in Ports : <<proto, q>> \notin inUse}}
    ELSE IF <<proto, req.port>> \in inUse THEN {} ELSE {req}

\* A variant of utp_bind_request that passes the caller's address on.
utp_bind_request_unresolved(local_addr_arg, tcp_local_addr) == local_addr_arg

\* bind, lines 31-33: the address the second protocol is asked to bind to,
\* local_addr being the caller's and tcp_local_addr tcp.local_addr().
utp_bind_request(local_addr_arg, tcp_local_addr) == tcp_local_addr

\* CombinedTransport::bind(req) returns Ok: tcp was bound to tcp_addr and,
\* if built in, utp to utp_addr.
BindOk(f, req, tcp_addr, utp_addr) ==
    /\ phase[f] = "new"
    /\ tcp_addr \in TransportBind("tcp", req, busy)
    /\ utpEnabled =>
          utp_addr \in TransportBind("utp", utp_bind_request(req, tcp_addr), busy)
    /\ ~utpEnabled => utp_addr = NoAddr
    /\ LET made == Constructed(tcp_addr, utp_addr)
       IN  /\ local_addr' = [local_addr EXCEPT ![f] = made.local_addr]
           /\ connected' = [connected EXCEPT ![f] = made.connected]
           /\ tcp' = [tcp EXCEPT ![f] = made.tcp]
           /\ utp' = [utp EXCEPT ![f] = made.utp]
    /\ phase' = [phase EXCEPT ![f] = "bound"]
    /\ busy' = busy \cup {<<"tcp", tcp_addr.port>>}
                    \cup (IF utpEnabled THEN {<<"utp", utp_addr.port>>} ELSE {})
    /\ UNCHANGED <<utpEnabled, calls, events, dropped, streamVars,
                   schedVars>>

\* CombinedTransport::bind(req) returns Err: the first or the second bind
\* failed, and no facade is constructed.
BindErr(f, req) ==
    /\ phase[f] = "new"
    /\ \/ TransportBind("tcp", req, busy) = {}
       \/ /\ utpEnabled
          /\ \E tcp_addr \in TransportBind("tcp", req, busy) :
                TransportBind("utp", utp_bind_request(req, tcp_addr), busy) = {}
    /\ phase' = [phase EXCEPT ![f] = "failed"]
    /\ UNCHANGED <<utpEnabled, local_addr, connected, tcp, utp, busy, calls,
                   events, dropped, streamVars,
                   schedVars>>

\* CombinedTransport::local_addr
LocalAddr(f) == local_addr[f]

\* No facade is constructed yet; some ports of the host are taken by others.
InitBind ==
    /\ utpEnabled \in BOOLEAN
    /\ phase = [f \in Facades |-> "new"]
    /\ local_addr = [f \in Facades |-> Unconstructed.local_addr]
    /\ connected = [f \in Facades |-> Unconstructed.connected]
    /\ tcp = [f \in Facades |-> Unconstructed.tcp]
    /\ utp = [f \in Facades |-> Unconstructed.utp]
    /\ busy \in SUBSET ({"tcp", "utp"} \X Ports)
    /\ calls = [f \in Facades |-> <<>>]
    /\ events = [f \in Facades |-> <<>>]
    /\ dropped = [f \in Facades |-> <<>>]
    /\ lastOp = NoOp
    /\ streamLog = NoLogs
    /\ closed = {}
    /\ woken = [f \in Facades |-> FALSE]
    /\ armed = [f \in Facades |-> {}]

\* bind, then the life of the facades: each connects to the other once.
NextBind ==
    \/ \E f \in Facades, req \in Requests, a \in Requests \cup {NoAddr},
          b \in Requests \cup {NoAddr} : BindOk(f, req, a, b)
    \/ \E f \in Facades, req \in Requests : BindErr(f, req)
    \/ \E f \in Facades : phase[Other(f)] = "bound" /\ ConnectOnce(f)
    \/ \E f \in Facades, p \in {"tcp", "utp"} :
          phase[Other(f)] = "bound" /\ Complete(f, p, local_addr[Other(f)])
    \/ \E f \in Facades, i1 \in IdleAnswers, i2 \in IdleAnswers : Poll(f, i1, i2)

SpecBind == InitBind /\ [][NextBind]_vars

-----------------------------------------------------------------------------
(* Operations on unified streams *)

\* The unified streams the caller holds, one of each variant of the build.
Held ==
    {CombinedStreamTcp(StreamHandle("A", "tcp", 1))}
      \cup (IF utpEnabled THEN {CombinedStreamUtp(StreamHandle("A", "utp", 1))}
            ELSE {})

Buffers == 0..1

\* What an underlying stream may answer to op with argument arg.
Answers(op, arg) ==
    {Answer("Pending", 0), Answer("Err", 0)}
      \cup (IF op \in {"poll_read", "poll_write"}
            THEN {Answer("Ok", n) : n \in 0..arg}
            ELSE {Answer("Ok", 0)})

NumOps ==
    Len(streamLog[StreamHandle("A", "tcp", 1)])
      + Len(streamLog[StreamHandle("A", "utp", 1)])

\* The caller issues op on the unified stream s; the underlying stream that
\* receives a call logs it.
Issue(s, op, arg, answer, fwd) ==
    /\ NumOps < MaxOps
    /\ streamLog' = [streamLog EXCEPT ![fwd.call.stream] =
                        Append(@, <<fwd.call.op, fwd.call.arg>>)]
    /\ lastOp' = [self |-> s, op |-> op, arg |-> arg, call |-> fwd.call,
                  result |-> answer, ret |-> fwd.ret]
    /\ closed' = IF fwd.call.op = "poll_close" /\ answer.tag = "Ok"
                 THEN closed \cup {fwd.call.stream} ELSE closed
    /\ UNCHANGED <<facadeVars, schedVars>>

PollRead(s, buf, answer) ==
    Issue(s, "poll_read", buf, answer, poll_read(s, buf, answer))

PollWrite(s, buf, answer) ==
    Issue(s, "poll_write", buf, answer, poll_write(s, buf, answer))

PollFlush(s, answer) == Issue(s, "poll_flush", 0, answer, poll_flush(s, answer))

PollClose(s, answer) == Issue(s, "poll_close", 0, answer, poll_close(s, answer))

InitStream == InitWith({"A"})

NextStream ==
    \/ \E s \in Held, buf \in Buffers :
          \E answer \in Answers("poll_read", buf) : PollRead(s, buf, answer)
    \/ \E s \in Held, buf \in Buffers :
          \E answer \in Answers("poll_write", buf) : PollWrite(s, buf, answer)
    \/ \E s \in Held : \E answer \in Answers("poll_flush", 0) : PollFlush(s, answer)
    \/ \E s \in Held : \E answer \in Answers("poll_close", 0) : PollClose(s, answer)

SpecStream == InitStream /\ [][NextStream]_vars

-----------------------------------------------------------------------------
(* A facade driven as a task: it is polled when it is scheduled, which it is *)
(* after every item it returned and when a transport that holds its waker    *)
(* signals readiness.                                                        *)

\* The protocols whose transport returned Pending in the poll with outcome r:
\* each has taken the waker of the poll's context.
Registered(r) ==
    {p \in {"tcp", "utp"} :
        (IF p = "tcp" THEN r.tcp_next ELSE r.utp_next).tag = "Pending"}

\* The task of facade f runs: it polls the facade once, and is scheduled
\* again at once if the poll returned an item.
SchedPoll(f) ==
    /\ phase[f] = "bound"
    /\ woken[f]
    /\ LET r == poll_next(f, "Pending", "Pending")
       IN  /\ Polled(f, r)
           /\ woken' = [woken EXCEPT ![f] = (r.ret.tag = "ReadySome")]
           /\ armed' = [armed EXCEPT ![f] = @ \cup Registered(r)]

\* The transport proto of f, holding the waker and an item, signals
\* readiness: the task is scheduled.
Signal(f, proto) ==
    /\ phase[f] = "bound"
    /\ proto \in armed[f]
    /\ Transport(f, proto).queue # <<>>
    /\ woken' = [woken EXCEPT ![f] = TRUE]
    /\ armed' = [armed EXCEPT ![f] = @ \ {proto}]
    /\ UNCHANGED <<facadeVars, streamVars>>

InitSched == InitWith({"A"})

NextSched ==
    \/ \E f \in Facades, a \in PeerAddrs : Connect(f, a)
    \/ \E f \in Facades, p \in {"tcp", "utp"}, a \in PeerAddrs : Complete(f, p, a)
    \/ \E f \in Facades, p \in {"tcp", "utp"}, a \in PeerAddrs : Accept(f, p, a)
    \/ \E f \in Facades, p \in {"tcp", "utp"}, a \in PeerAddrs : Fail(f, p, a)
    \/ \E f \in Facades, p \in {"tcp", "utp"} : Signal(f, p)
    \/ \E f \in Facades : SchedPoll(f)

\* A scheduled task runs and a signal due is delivered; the network owes
\* nothing.
SpecSched ==
    /\ InitSched
    /\ [][NextSched]_vars
    /\ WF_vars(\E f \in Facades : SchedPoll(f))
    /\ WF_vars(\E f \in Facades, p \in {"tcp", "utp"} : Signal(f, p))

-----------------------------------------------------------------------------
(* The life of one facade and the connections it hands out: the caller      *)
(* connects to one peer again and again and closes streams it was given.    *)

\* The unified streams facade f has handed to the caller.
HandedOut(f) ==
    {events[f][i].conn.stream :
        i \in {j \in 1..Len(events[f]) : events[f][j].ok}}

\* The caller closes a unified stream the facade gave it.
CloseAccepted(f, s, answer) ==
    /\ s \in HandedOut(f)
    /\ s.stream \in DOMAIN streamLog
    /\ s.stream \notin closed
    /\ PollClose(s, answer)

InitLife == InitWith({"A"})

NextLife ==
    \/ \E f \in Facades : Connect(f, AddrOf("B"))
    \/ \E f \in Facades, p \in {"tcp", "utp"} : Complete(f, p, AddrOf("B"))
    \/ \E f \in Facades, p \in {"tcp", "utp"} : Accept(f, p, AddrOf("B"))
    \/ \E f \in Facades, p \in {"tcp", "utp"} : Fail(f, p, AddrOf("B"))
    \/ \E f \in Facades, i1 \in IdleAnswers, i2 \in IdleAnswers : Poll(f, i1, i2)
    \/ \E f \in Facades : \E s \in HandedOut(f) :
          \E answer \in Answers("poll_close", 0) : CloseAccepted(f, s, answer)

SpecLife == InitLife /\ [][NextLife]_vars

-----------------------------------------------------------------------------
(* Properties *)

Range(seq) == {seq[i] : i \in 1..Len(seq)}

\* The part of a history that a step appended.
Appended(old, new) == SubSeq(new, Len(old) + 1, Len(new))

\* The positions of f's merged sequence holding an accepted connection with
\* this peer and direction.
Accepted(f, peer_addr, is_initiator) ==
    {i \in 1..Len(events[f]) :
        /\ events[f][i].ok
        /\ events[f][i].conn.peer_addr = peer_addr
        /\ events[f][i].conn.is_initiator = is_initiator}

AcceptedAny(f) == {i \in 1..Len(events[f]) : events[f][i].ok}

\* The peers of the outbound connections f has accepted.
AcceptedOutboundPeers(f) ==
    {events[f][i].conn.peer_addr :
        i \in {j \in 1..Len(events[f]) :
                  events[f][j].ok /\ events[f][j].conn.is_initiator}}

\* No attempt is in flight and every transport has handed out all it made.
Quiet ==
    \A f \in Facades :
        /\ tcp[f].queue = <<>> /\ utp[f].queue = <<>>
        /\ \A a \in Addrs : tcp[f].pending[a] = 0 /\ utp[f].pending[a] = 0

\* C1 -- with one protocol built in and A having called connect(B) once (B
\* none), A's merged sequence never holds anything but one accepted
\* connection (peer B, initiator) and B's nothing but one accepted connection
\* (peer A, not initiator); once the attempt has completed and both sides
\* have polled their transports empty, each side holds exactly that one.
C1_Scenario ==
    /\ ~utpEnabled
    /\ calls["A"] = <<local_addr["B"]>>
    /\ calls["B"] = <<>>

C1_SingleProtocolConnect ==
    C1_Scenario =>
        /\ Cardinality(Accepted("A", local_addr["B"], TRUE)) <= 1
        /\ Cardinality(Accepted("B", local_addr["A"], FALSE)) <= 1
        /\ 1..Len(events["A"]) = Accepted("A", local_addr["B"], TRUE)
        /\ 1..Len(events["B"]) = Accepted("B", local_addr["A"], FALSE)
        /\ Quiet => /\ Cardinality(Accepted("A", local_addr["B"], TRUE)) = 1
                    /\ Cardinality(Accepted("B", local_addr["A"], FALSE)) = 1

C1_Witness ==
    /\ C1_Scenario
    /\ Quiet
    /\ Len(events["A"]) = 1 /\ events["A"][1].conn.is_initiator
    /\ Len(events["B"]) = 1 /\ ~events["B"][1].conn.is_initiator

\* C2 -- the arbiter never rejects an inbound connection: every connection
\* a facade has discarded was an outbound one, and in every reachable state
\* on_connection returns every inbound connection, those queued in the
\* transports and any other a peer may open, as an accepted item with its
\* peer, direction and protocol.
InboundConns(f) ==
    {it.conn : it \in {x \in Range(tcp[f].queue) \cup Range(utp[f].queue) :
                          x.ok /\ ~x.conn.is_initiator}}
      \cup {ConnectionNew(StreamHandle(f, p, 0), a, FALSE, p) :
               a \in PeerAddrs, p \in {"tcp", "utp"}}

C2_InboundNeverRejected ==
    \A f \in Facades :
        /\ \A d \in Range(dropped[f]) : d.is_initiator
        /\ \A c \in InboundConns(f), map \in {"Tcp", "Utp"} :
              LET r == on_connection(c, map, connected[f])
              IN  /\ r.some /\ r.item.ok
                  /\ r.item.conn.peer_addr = c.peer_addr
                  /\ r.item.conn.is_initiator = FALSE
                  /\ r.item.conn.protocol = c.protocol
                  /\ r.item.conn.stream.stream = c.stream

\* An inbound connection was accepted from a peer an outbound connection to
\* which had been accepted before, and another inbound one after it.
C2_Witness ==
    \E f \in Facades : \E i, j, k \in 1..Len(events[f]) :
        /\ i < j /\ j < k
        /\ events[f][i].ok /\ events[f][i].conn.is_initiator
        /\ events[f][j].ok /\ ~events[f][j].conn.is_initiator
        /\ events[f][k].ok /\ ~events[f][k].conn.is_initiator
        /\ events[f][i].conn.peer_addr = events[f][j].conn.peer_addr
        /\ events[f][j].conn.peer_addr = events[f][k].conn.peer_addr

\* The items the transports of f hold or have handed out.
Consumed(f) == (tcp[f].made - Len(tcp[f].queue)) + (utp[f].made - Len(utp[f].queue))

\* C3 -- in every step, every outbound connection the arbiter decides on is
\* accepted if its peer was absent from the Connected-Peer Set before the
\* step, and then the peer is inserted and the connection yielded; it is
\* discarded if the peer was present, and then nothing is yielded for it
\* and the set is unchanged.  Every connection taken from a transport is
\* either yielded or discarded.
C3_Step(f) ==
    LET yielded == Appended(events[f], events'[f])
        drops == Appended(dropped[f], dropped'[f])
        outbound == {e \in Range(yielded) : e.ok /\ e.conn.is_initiator}
    IN  /\ Len(yielded) <= 1
        /\ Consumed(f)' - Consumed(f) = Len(yielded) + Len(drops)
        /\ \A d \in Range(drops) :
              d.is_initiator => d.peer_addr \in connected[f]
        /\ \A e \in outbound :
              /\ e.conn.peer_addr \notin connected[f]
              /\ connected'[f] = connected[f] \cup {e.conn.peer_addr}
        /\ outbound = {} => connected'[f] = connected[f]

C3_OutboundRule == [][\A f \in Facades : C3_Step(f)]_vars

\* An outbound connection was accepted and a later one to the same peer
\* discarded.
C3_Witness ==
    \E f \in Facades : \E i \in 1..Len(events[f]), j \in 1..Len(dropped[f]) :
        /\ events[f][i].ok /\ events[f][i].conn.is_initiator
        /\ dropped[f][j].is_initiator
        /\ dropped[f][j].peer_addr = events[f][i].conn.peer_addr

\* C4 -- the Connected-Peer Set of a facade is exactly the set of the peer
\* addresses of the outbound connections it has accepted so far, so it has
\* no more entries than there are such peers and holds the peer of every
\* accepted outbound connection once that connection is returned.
C4_ConnectedPeerSet ==
    \A f \in Facades :
        /\ connected[f] = AcceptedOutboundPeers(f)
        /\ Cardinality(connected[f]) <= Cardinality(AcceptedOutboundPeers(f))

\* Two peers are in the set, and an inbound connection was accepted too.
C4_Witness ==
    \E f \in Facades :
        /\ Cardinality(connected[f]) = 2
        /\ \E i \in 1..Len(events[f]) :
              events[f][i].ok /\ ~events[f][i].conn.is_initiator

\* The positions of f's merged sequence holding an accepted connection with
\* the other facade.
AcceptedWithPeer(f) ==
    {i \in 1..Len(events[f]) :
        events[f][i].ok /\ events[f][i].conn.peer_addr = local_addr[Other(f)]}

C5_Scenario ==
    /\ utpEnabled
    /\ calls["A"] = <<local_addr["B"]>>
    /\ calls["B"] = <<local_addr["A"]>>

\* C5 as stated -- with two protocols and A and B each having called connect
\* on the other once, each side holds at most 2 accepted connections with
\* the other, and at least 1 once every attempt has completed and been
\* polled.
C5_AtMostTwo ==
    C5_Scenario =>
        \A f \in Facades :
            /\ Cardinality(AcceptedWithPeer(f)) <= 2
            /\ Quiet => Cardinality(AcceptedWithPeer(f)) >= 1

\* C5 as amended -- in that scenario each side holds at most 3 accepted
\* connections with the other (its own outbound one and the inbound one of
\* each protocol), and at least 1 once every attempt has completed and been
\* polled.
C5_AtMostThree ==
    C5_Scenario =>
        \A f \in Facades :
            /\ Cardinality(AcceptedWithPeer(f)) <= 3
            /\ Quiet => Cardinality(AcceptedWithPeer(f)) >= 1

C5_Witness ==
    /\ C5_Scenario
    /\ Quiet
    /\ \A f \in Facades :
          /\ Cardinality(AcceptedWithPeer(f)) = 3
          /\ Len(dropped[f]) = 1

TotalErrs(f) ==
    Cardinality(Failures(tcp[f].queue)) + Cardinality(Failures(utp[f].queue))
      + Cardinality(Failures(events[f]))

\* C6 -- no failure a transport reports is lost or repeated: in every step the
\* failures a facade's transports hold plus those it has returned do not
\* decrease, an Err item a step appends to the merged sequence is the head
\* of a transport's queue before the step and leaves the Connected-Peer Set
\* as it was, and no Err item is in the merged sequence twice.  After an
\* Err was returned a poll still polls the first transport, polls the second
\* when it returns nothing from the first, and returns an item whenever the
\* first transport holds one that the arbiter does not discard.
C6_Step(f) ==
    LET yielded == Appended(events[f], events'[f])
    IN  /\ TotalErrs(f)' >= TotalErrs(f)
        /\ \A e \in Range(yielded) :
              ~e.ok =>
                /\ \/ tcp[f].queue # <<>> /\ e = Head(tcp[f].queue)
                   \/ utp[f].queue # <<>> /\ e = Head(utp[f].queue)
                /\ connected'[f] = connected[f]
        /\ \A i, j \in Failures(events[f]) : events[f][i] = events[f][j] => i = j
        /\ Failures(events[f]) # {} =>
              \A i1, i2 \in IdleAnswers :
                 LET r == poll_next(f, i1, i2)
                 IN  /\ r.tcp_next.tag # "NotPolled"
                     /\ (utpEnabled /\ r.ret.tag = "Pending") =>
                            r.utp_next.tag # "NotPolled"
                     /\ (tcp[f].queue # <<>>
                           /\ discarded(r.tcp_next, connected[f]) = <<>>) =>
                            r.ret = PollReadySome(
                                on_poll_connection(r.tcp_next, "Tcp",
                                                   connected[f]).item)

C6_FailuresSurfaceOnce == [][\A f \in Facades : C6_Step(f)]_vars

\* The first transport's Err was returned, and after it a connection of the
\* second transport accepted.
C6_Witness ==
    \E f \in Facades : \E i, j \in 1..Len(events[f]) :
        /\ i < j
        /\ ~events[f][i].ok /\ events[f][i].conn.protocol = "tcp"
        /\ events[f][j].ok /\ events[f][j].conn.protocol = "utp"

\* C7 -- a facade that bind returned has every underlying protocol bound to
\* one address, the concrete address (no port 0) its first protocol was bound
\* to, and local_addr() returns that address, whatever the facade has done
\* since.
C7_OneEndpoint ==
    \A f \in Facades :
        phase[f] = "bound" =>
            /\ LocalAddr(f) = tcp[f].addr
            /\ LocalAddr(f).port \in Ports
            /\ utpEnabled => utp[f].addr = tcp[f].addr

\* Both facades were bound on the wildcard host with both protocols and have
\* accepted connections since.
C7_Witness ==
    /\ utpEnabled
    /\ \A f \in Facades :
          /\ phase[f] = "bound"
          /\ LocalAddr(f).host = "any"
          /\ Len(events[f]) >= 2

\* C8 -- a step in which connect(peer) is called on a facade hands peer to
\* connect of each underlying transport of the build exactly once, and
\* changes neither a transport's queue nor the merged sequence, the
\* discarded connections, the Connected-Peer Set or the local address; the
\* Connected-Peer Set changes only in a step in which a poll returns an item.
C8_Step(f) ==
    /\ calls'[f] # calls[f] =>
          LET peer_addr == calls'[f][Len(calls'[f])]
          IN  /\ calls'[f] = Append(calls[f], peer_addr)
              /\ tcp'[f].connects = Append(tcp[f].connects, peer_addr)
              /\ utpEnabled =>
                    utp'[f].connects = Append(utp[f].connects, peer_addr)
              /\ ~utpEnabled => utp'[f] = utp[f]
              /\ tcp'[f].queue = tcp[f].queue /\ utp'[f].queue = utp[f].queue
              /\ events'[f] = events[f] /\ dropped'[f] = dropped[f]
              /\ connected'[f] = connected[f]
              /\ local_addr'[f] = local_addr[f]
    /\ connected'[f] # connected[f] =>
          /\ calls'[f] = calls[f]
          /\ Len(events'[f]) = Len(events[f]) + 1

C8_ConnectBroadcast == [][\A f \in Facades : C8_Step(f)]_vars

C8_Witness ==
    /\ utpEnabled
    /\ \E f \in Facades :
          /\ Len(calls[f]) = 2
          /\ tcp[f].connects = calls[f] /\ utp[f].connects = calls[f]
          /\ connected[f] # {}

\* C9 -- in every reachable state a poll of a facade returns an item or
\* Pending, never the end of the sequence, whatever its transports answer
\* when they hold nothing (Pending or the end of their sequence).
C9_NeverEnds ==
    \A f \in Facades :
        phase[f] = "bound" =>
            \A i1, i2 \in IdleAnswers :
                poll_next(f, i1, i2).ret.tag \in {"Pending", "ReadySome"}

\* A facade that has returned an Err and a connection, and whose transports
\* hold nothing, is polled with both at the end of their sequence.
C9_Witness ==
    /\ utpEnabled
    /\ \E f \in Facades :
          /\ Failures(events[f]) # {}
          /\ AcceptedAny(f) # {}
          /\ tcp[f].queue = <<>> /\ utp[f].queue = <<>>
          /\ poll_next(f, "ReadyNone", "ReadyNone").tcp_next.tag = "ReadyNone"
          /\ poll_next(f, "ReadyNone", "ReadyNone").utp_next.tag = "ReadyNone"
          /\ poll_next(f, "ReadyNone", "ReadyNone").ret.tag = "Pending"

\* C10 -- every operation issued on a unified stream makes exactly one call:
\* the same operation with the same argument on the stream its variant
\* holds, logged by that stream and by no other; what the caller gets back
\* is what that stream answered.
C10_Step ==
    /\ lastOp'.self \in Held
    /\ lastOp'.call = [stream |-> lastOp'.self.stream, op |-> lastOp'.op,
                       arg |-> lastOp'.arg]
    /\ lastOp'.call.stream.kind = protocol(lastOp'.self)
    /\ lastOp'.ret = lastOp'.result
    /\ streamLog' = [streamLog EXCEPT ![lastOp'.self.stream] =
                        Append(@, <<lastOp'.op, lastOp'.arg>>)]

C10_PureDispatch == [][C10_Step]_vars

\* The Utp variant was closed after a write on the Tcp variant.
C10_Witness ==
    /\ lastOp.op = "poll_close"
    /\ lastOp.self.variant = "Utp"
    /\ lastOp.ret = Answer("Ok", 0)
    /\ streamLog[StreamHandle("A", "tcp", 1)] = <<<<"poll_write", 1>>>>

\* What the first protocol's poll gives poll_next to return, in the state
\* poll_next is called in.
FirstResult(r, f) == on_poll_connection(r.tcp_next, "Tcp", connected[f])

\* C11 as stated -- in every poll the first protocol is polled first, and
\* when its poll returns a ready item the second protocol is not polled in
\* that call.
C11_ReadyItemShortCircuits ==
    \A f \in Facades :
        phase[f] = "bound" =>
            \A i1, i2 \in IdleAnswers :
                LET r == poll_next(f, i1, i2)
                IN  /\ r.tcp_next = TransportPollNext(tcp[f], i1)
                    /\ r.tcp_next.tag = "ReadySome" =>
                          r.utp_next = NotPolled /\ r.utp = utp[f]

\* C11 as amended -- in every poll the first protocol is polled first; when
\* its poll gives an item to return (an Err or a connection the arbiter
\* accepts) that item is returned and the second protocol is not polled and
\* keeps what it holds; when it gives nothing to return (Pending, the end of
\* its sequence or an outbound connection the arbiter drops) the second
\* protocol, if built in, is polled in the same call.
C11_PriorityOrder ==
    \A f \in Facades :
        phase[f] = "bound" =>
            \A i1, i2 \in IdleAnswers :
                LET r == poll_next(f, i1, i2)
                IN  /\ r.tcp_next = TransportPollNext(tcp[f], i1)
                    /\ FirstResult(r, f).some =>
                          /\ r.ret = PollReadySome(FirstResult(r, f).item)
                          /\ r.utp_next = NotPolled
                          /\ r.utp = utp[f]
                    /\ (~FirstResult(r, f).some /\ utpEnabled) =>
                          r.utp_next = TransportPollNext(utp[f], i2)
                    /\ ~utpEnabled => r.utp_next = NotPolled

\* After a drop, both protocols hold an item the facade would return: the
\* poll returns the first protocol's and leaves the second's where it is.
C11_Witness ==
    /\ utpEnabled
    /\ \E f \in Facades :
          /\ dropped[f] # <<>>
          /\ tcp[f].queue # <<>> /\ utp[f].queue # <<>>
          /\ on_poll_connection(PollReadySome(Head(utp[f].queue)), "Utp",
                                connected[f]).some
          /\ LET r == poll_next(f, "Pending", "Pending")
             IN  /\ r.ret.tag = "ReadySome"
                 /\ r.ret.item.conn.protocol = "tcp"
                 /\ r.utp_next = NotPolled

\* C12 -- whenever a poll of a facade returns Pending, every underlying
\* transport polled in that call returned Pending itself, and every
\* transport of the build was polled: the facade never returns Pending from a
\* call in which a transport returned a ready item.  The transports are taken
\* to answer Pending when they hold nothing.
C12_PendingOnlyWhenAllPending ==
    \A f \in Facades :
        phase[f] = "bound" =>
            LET r == poll_next(f, "Pending", "Pending")
            IN  r.ret.tag = "Pending" =>
                    /\ r.tcp_next.tag = "Pending"
                    /\ utpEnabled => r.utp_next.tag = "Pending"

\* C13 -- under the scheduler of SpecSched every item a transport holds
\* ready is eventually consumed by the facade: a transport that holds
\* something comes to hold nothing, whether or not anything more happens
\* in the network.
C13_EventuallyConsumed ==
    \A f \in Facades : \A p \in {"tcp", "utp"} :
        (Transport(f, p).queue # <<>>) ~> (Transport(f, p).queue = <<>>)

\* C14 -- in a build with both protocols, for every outbound connection a
\* facade's arbiter has dropped, the facade has accepted an outbound
\* connection to the same peer that completed on a different protocol.
C14_DropRedundantAcrossProtocols ==
    \A f \in Facades : \A d \in Range(dropped[f]) :
        (utpEnabled /\ d.is_initiator) =>
            \E i \in Accepted(f, d.peer_addr, TRUE) :
                events[f][i].conn.protocol # d.protocol

\* C15 -- in every step of a facade's life (a connect call, a poll that
\* accepts, drops or returns a failure, a completion in the network, a
\* close of a stream the caller was given) the Connected-Peer Set after the
\* step includes the set before it.
C15_Step(f) == connected[f] \subseteq connected'[f]

C15_GrowsMonotonically == [][\A f \in Facades : C15_Step(f)]_vars

\* The outbound connection accepted for a peer has been closed by the
\* caller, a later connection to the peer was dropped and a failure
\* returned; the peer is still in the set.
C15_Witness ==
    \E f \in Facades : \E i \in 1..Len(events[f]) :
        /\ events[f][i].ok /\ events[f][i].conn.is_initiator
        /\ events[f][i].conn.stream.stream \in closed
        /\ events[f][i].conn.peer_addr \in connected[f]
        /\ dropped[f] # <<>>
        /\ Failures(events[f]) # {}

\* The failures the transports of f have reported or hold.
TransportErrs(f) ==
    {ErrItem(p, n) : p \in {"tcp", "utp"}, n \in 1..(tcp[f].made + utp[f].made)}

\* The items the underlying polls of a call with outcome r returned.
Reported(r) ==
    {x.item : x \in {y \in {r.tcp_next, r.utp_next} : y.tag = "ReadySome"}}

\* C16 -- every Err item of a merged sequence is a failure one of the
\* facade's transports made, and an Err a poll returns is the item a
\* transport returned in that same call; a connection the arbiter discards
\* is not in the merged sequence, and a call that discards a connection
\* returns nothing for it: what it returns, if anything, is another item a
\* transport returned in that call.
C16_ArbitrationNeverErrs ==
    \A f \in Facades :
        /\ \A e \in Range(events[f]) :
              /\ ~e.ok => e \in TransportErrs(f)
              /\ e.ok => \A d \in Range(dropped[f]) : e.conn.stream.stream # d.stream
        /\ phase[f] = "bound" =>
              \A i1, i2 \in IdleAnswers :
                  LET r == poll_next(f, i1, i2)
                  IN  /\ (r.ret.tag = "ReadySome" /\ ~r.ret.item.ok) =>
                            r.ret.item \in Reported(r)
                      /\ \A d \in Range(r.dropped) :
                            /\ OkItem(d) \in Reported(r)
                            /\ r.ret.tag = "ReadySome" =>
                                  IF r.ret.item.ok
                                  THEN r.ret.item.conn.stream.stream # d.stream
                                  ELSE r.ret.item \in Reported(r)

\* A poll is about to drop the first transport's connection and return the
\* failure the second transport holds.
C16_Witness ==
    \E f \in Facades :
        LET r == poll_next(f, "Pending", "Pending")
        IN  /\ phase[f] = "bound"
            /\ Len(r.dropped) = 1
            /\ r.dropped[1].protocol = "tcp"
            /\ r.ret.tag = "ReadySome"
            /\ ~r.ret.item.ok
            /\ r.ret.item.conn.protocol = "utp"

\* The outbound connections to peer_addr a transport of f holds, and one of
\* each protocol that may yet complete.
OutboundConns(f, peer_addr) ==
    {it.conn : it \in {x \in Range(tcp[f].queue) \cup Range(utp[f].queue) :
                          x.ok /\ x.conn.is_initiator
                               /\ x.conn.peer_addr = peer_addr}}
      \cup {ConnectionNew(StreamHandle(f, p, 0), peer_addr, TRUE, p) :
               p \in {"tcp", "utp"}}

\* C17 -- for every facade and peer address, the merged sequence holds at
\* most one accepted outbound connection to the peer; once it holds one, the
\* arbiter drops every outbound connection to the peer, of either protocol
\* and whether or not the caller has closed the accepted stream, and a poll
\* that takes such a connection from the first transport discards it and
\* returns no outbound connection to the peer.
C17_OneOutboundPerPeer ==
    \A f \in Facades : \A peer_addr \in PeerAddrs :
        /\ Cardinality(Accepted(f, peer_addr, TRUE)) <= 1
        /\ Accepted(f, peer_addr, TRUE) # {} =>
              /\ \A c \in OutboundConns(f, peer_addr), map \in {"Tcp", "Utp"} :
                    ~on_connection(c, map, connected[f]).some
              /\ \A i1, i2 \in IdleAnswers :
                    LET r == poll_next(f, i1, i2)
                    IN  /\ (r.tcp_next.tag = "ReadySome"
                              /\ r.tcp_next.item.conn \in
                                    OutboundConns(f, peer_addr)) =>
                                r.dropped # <<>>
                                  /\ r.dropped[1] = r.tcp_next.item.conn
                        /\ r.ret.tag = "ReadySome" =>
                              ~(/\ r.ret.item.ok
                                /\ r.ret.item.conn.is_initiator
                                /\ r.ret.item.conn.peer_addr = peer_addr)

\* connect was called twice for a peer, the connection accepted for it has
\* been closed by the caller, and a later connection of the same protocol
\* and one of the other protocol were dropped.
C17_Witness ==
    \E f \in Facades : \E i \in 1..Len(events[f]) :
        \E j, k \in 1..Len(dropped[f]) :
            /\ Len(calls[f]) = 2
            /\ events[f][i].ok /\ events[f][i].conn.is_initiator
            /\ events[f][i].conn.stream.stream \in closed
            /\ dropped[f][j].peer_addr = events[f][i].conn.peer_addr
            /\ dropped[f][k].peer_addr = events[f][i].conn.peer_addr
            /\ dropped[f][j].protocol = events[f][i].conn.protocol
            /\ dropped[f][k].protocol # events[f][i].conn.protocol

\* The items a poll with outcome r took from the transports of f.
Taken(r, f) ==
    (IF r.tcp # tcp[f] THEN <<Head(tcp[f].queue)>> ELSE <<>>)
      \o (IF r.utp # utp[f] THEN <<Head(utp[f].queue)>> ELSE <<>>)

\* The poll with outcome r returned the transport's item x.
Returns(r, x) ==
    /\ r.ret.tag = "ReadySome"
    /\ IF x.ok
       THEN r.ret.item.ok /\ r.ret.item.conn.stream.stream = x.conn.stream
       ELSE r.ret.item = x

\* C18 -- a poll takes from each transport nothing or the head of what it
\* holds and leaves the rest as it is; it returns at most one item; every
\* item it takes is the item it returns or an outbound connection to a peer
\* of the Connected-Peer Set that it discards, and nothing else is returned
\* or discarded; when it returns the first transport's item the second
\* transport holds what it held.
C18_NoItemLost ==
    \A f \in Facades :
        phase[f] = "bound" =>
            \A i1, i2 \in IdleAnswers :
                LET r == poll_next(f, i1, i2)
                    taken == Taken(r, f)
                IN  /\ r.tcp \in {tcp[f], TransportAfterPoll(tcp[f])}
                    /\ r.utp \in {utp[f], TransportAfterPoll(utp[f])}
                    /\ Len(taken) = Len(r.dropped)
                                      + (IF r.ret.tag = "ReadySome" THEN 1 ELSE 0)
                    /\ \A x \in Range(taken) :
                          \/ Returns(r, x)
                          \/ /\ x.ok /\ x.conn.is_initiator
                             /\ x.conn.peer_addr \in connected[f]
                             /\ x.conn \in Range(r.dropped)
                    /\ (tcp[f].queue # <<>> /\ Returns(r, Head(tcp[f].queue))) =>
                          r.utp = utp[f]

\* Both transports hold an item the facade returns, the first transport
\* another behind it: the poll returns the first transport's head and
\* leaves the second transport and the rest of the first as they are.
C18_Witness ==
    /\ utpEnabled
    /\ \E f \in Facades :
          /\ Len(tcp[f].queue) >= 2 /\ utp[f].queue # <<>>
          /\ on_poll_connection(PollReadySome(Head(utp[f].queue)), "Utp",
                                connected[f]).some
          /\ LET r == poll_next(f, "Pending", "Pending")
             IN  /\ Returns(r, Head(tcp[f].queue))
                 /\ r.tcp.queue = Tail(tcp[f].queue)
                 /\ r.utp = utp[f]

\* C19 -- the arbiter accepts every inbound connection, also one from a peer
\* of the Connected-Peer Set, and leaves the set as it is; a poll that
\* returns an inbound connection leaves the set as it is; and as long as no
\* outbound connection to a peer was accepted the arbiter accepts an
\* outbound connection to it, however many inbound connections from that
\* peer were accepted.
C19_InboundOutsideDedup ==
    \A f \in Facades : \A peer_addr \in PeerAddrs :
        /\ \A c \in {x \in InboundConns(f) : x.peer_addr = peer_addr} :
              /\ connected_after(c, connected[f]) = connected[f]
              /\ \A map \in {"Tcp", "Utp"} :
                    on_connection(c, map, connected[f]).some
        /\ Accepted(f, peer_addr, TRUE) = {} =>
              \A c \in OutboundConns(f, peer_addr), map \in {"Tcp", "Utp"} :
                  on_connection(c, map, connected[f]).some
        /\ phase[f] = "bound" =>
              \A i1, i2 \in IdleAnswers :
                  LET r == poll_next(f, i1, i2)
                  IN  (r.ret.tag = "ReadySome" /\ r.ret.item.ok
                         /\ ~r.ret.item.conn.is_initiator) =>
                            r.connected = connected[f]

\* An inbound connection from a peer was accepted, then an outbound
\* connection to it, then another inbound connection from it.
C19_Witness ==
    \E f \in Facades : \E i, j, k \in 1..Len(events[f]) :
        /\ i < j /\ j < k
        /\ events[f][i].ok /\ ~events[f][i].conn.is_initiator
        /\ events[f][j].ok /\ events[f][j].conn.is_initiator
        /\ events[f][k].ok /\ ~events[f][k].conn.is_initiator
        /\ events[f][i].conn.peer_addr = events[f][j].conn.peer_addr
        /\ events[f][j].conn.peer_addr = events[f][k].conn.peer_addr

\* The connection record conn of a transport as the facade hands it on when
\* it was polled from the transport of protocol proto.
Surfaced(conn, proto) ==
    OkItem([conn EXCEPT !.stream =
               IF proto = "tcp" THEN CombinedStreamTcp(conn.stream)
               ELSE CombinedStreamUtp(conn.stream)])

\* C20 -- an accepted connection a poll returns is the record the polled
\* transport returned in that call, with the same peer address, initiator
\* flag and protocol, its stream handle wrapped in the Tcp variant when it
\* came from the first transport and in the Utp variant when it came from
\* the second; every accepted item of the merged sequence wraps a stream
\* handle of the facade's transport of the item's protocol in the variant of
\* that protocol, and protocol() of the unified stream names it.
C20_SurfacedUnaltered ==
    \A f \in Facades :
        /\ \A e \in {x \in Range(events[f]) : x.ok} :
              /\ e.conn.stream.stream.owner = f
              /\ e.conn.stream.stream.kind = e.conn.protocol
              /\ e.conn.stream.stream.id \in
                    1..Transport(f, e.conn.protocol).made
              /\ protocol(e.conn.stream) = e.conn.protocol
              /\ e.conn.stream.variant = "Tcp" <=> e.conn.protocol = "tcp"
        /\ phase[f] = "bound" =>
              \A i1, i2 \in IdleAnswers :
                  LET r == poll_next(f, i1, i2)
                  IN  (r.ret.tag = "ReadySome" /\ r.ret.item.ok) =>
                         IF FirstResult(r, f).some
                         THEN r.ret.item = Surfaced(r.tcp_next.item.conn, "tcp")
                         ELSE r.ret.item = Surfaced(r.utp_next.item.conn, "utp")

\* The merged sequence holds an inbound connection of the first protocol
\* and an outbound connection of the second.
C20_Witness ==
    \E f \in Facades : \E i, j \in 1..Len(events[f]) :
        /\ events[f][i].ok /\ ~events[f][i].conn.is_initiator
        /\ events[f][i].conn.stream.variant = "Tcp"
        /\ events[f][j].ok /\ events[f][j].conn.is_initiator
        /\ events[f][j].conn.stream.variant = "Utp"

=============================================================================
